---- MODULE Spec2Model ----
(***************************************************************************)
(* Trap dispatch, fault classification, exception-table fixup and the      *)
(* managed user-mode round trip of axcpu (aarch64 port), as a state        *)
(* machine.                                                                *)
(***************************************************************************)
EXTENDS Integers, Naturals, Sequences, FiniteSets, TLC

VARIABLES
    linked,        \* the linker-provided entries between _ex_table_start and _ex_table_end
    ex_table,      \* the same memory as the program currently holds it
    initialized,   \* init_exception_table has run at least once
    pc,            \* "kernel" | "ktrap" | "kret" | "user" | "uret" | "fatal" | "classify" | "classified"
    trap,          \* the trap being handled: kind, source and the registers ESR_EL1, FAR_EL1
    tf,            \* the TrapFrame of the kernel-mode trap being handled
    tf_entry,      \* that frame as the trampoline saved it on entry
    uctx,          \* the UserContext run() is called on
    irqs_enabled,  \* interrupt delivery to the kernel
    trace,         \* calls made while dispatching the current trap, in order
    ret,           \* the ReturnReason run() returned
    iss_in,        \* classifier harness: the syndrome payload under test
    cls,           \* classifier harness: what the classifiers returned for iss_in
    steps,         \* the statements run() has executed in the current round trip, in order
    inits,         \* how many times init_exception_table has run
    ctor_in,       \* constructor harness: the arguments of the constructors
    built,         \* constructor harness: the context a constructor returned
    x86,           \* x86_64 core and frame around the one-shot entry and the fs_base pair
    a64,           \* aarch64 core around the one-shot entry and the managed round trip
    exc,           \* ExceptionInfo harness: the info and the kind computed from it
    cores          \* per core: the fixup_exception call it is executing on its own frame

(* the variables of the harnesses *)
harness == <<ctor_in, built, x86, a64, exc, cores>>

vars == <<linked, ex_table, initialized, pc, trap, tf, tf_entry, uctx, irqs_enabled,
          trace, ret, iss_in, cls, steps, inits, harness>>

----------------------------------------------------------------------------
(* Bounds of the model *)

MaxEntries == 3
MaxTrapEntries == 1
MaxAddr == 2
ISSBits == 9
MaxInits == 2
MaxRuns == 2
MaxCalls == 2

(* Addresses an instruction pointer or a faulting address is drawn from *)
Addrs == 0..MaxAddr

(* Recovery addresses: one that may itself be a faulting address, one that never is *)
RecoveryAddrs == {1, MaxAddr + 6}

(* Fault addresses reported in FAR_EL1 *)
FarSamples == {16, 17}

----------------------------------------------------------------------------
(* Bit arithmetic on unsigned integers *)

RECURSIVE BitAnd(_, _)
BitAnd(a, b) ==
    IF a = 0 \/ b = 0 THEN 0
    ELSE (a % 2) * (b % 2) + 2 * BitAnd(a \div 2, b \div 2)

Bit(n, k) == (n \div (2 ^ k)) % 2

----------------------------------------------------------------------------
(* Exception classes of ESR_EL1.EC *)

EC_Unknown == 0
EC_IllegalExecutionState == 14
EC_SVC64 == 21
EC_InstrAbortLowerEL == 32
EC_InstrAbortCurrentEL == 33
EC_PCAlignmentFault == 34
EC_DataAbortLowerEL == 36
EC_DataAbortCurrentEL == 37
EC_SPAlignmentFault == 38
EC_BreakpointLowerEL == 48
EC_Brk64 == 60

----------------------------------------------------------------------------
(* Fault classifier *)

(* faulty variant: only the low four bits of the sub-code are compared *)
is_valid_page_fault_lowmask(iss) == BitAnd(iss, 12) \in {4, 12}

is_valid_page_fault(iss) == BitAnd(iss, 60) \in {4, 12}

(* faulty variant: the cache-maintenance bit is ignored *)
data_abort_access_flags_ignore_cm(iss) ==
    LET wnr == BitAnd(iss, 2 ^ 6) # 0
    IN  IF wnr THEN {"WRITE"} ELSE {"READ"}

data_abort_access_flags(iss) ==
    LET wnr == BitAnd(iss, 2 ^ 6) # 0
        cm  == BitAnd(iss, 2 ^ 8) # 0
    IN  IF wnr /\ ~cm THEN {"WRITE"} ELSE {"READ"}

----------------------------------------------------------------------------
(* Exception table *)

ExceptionTableEntry == [from : Addrs, to : RecoveryAddrs]

RECURSIVE TablesOfLen(_)
TablesOfLen(n) ==
    IF n = 0 THEN {<<>>}
    ELSE {Append(t, e) : t \in TablesOfLen(n - 1), e \in ExceptionTableEntry}

Tables(max) == UNION {TablesOfLen(n) : n \in 0..max}

(* derived Ord of ExceptionTableEntry: by from, then by to *)
EntryLess(a, b) == a.from < b.from \/ (a.from = b.from /\ a.to < b.to)

RECURSIVE InsertSorted(_, _)
InsertSorted(s, e) ==
    IF s = <<>> THEN <<e>>
    ELSE IF EntryLess(e, Head(s)) THEN <<e>> \o s
    ELSE <<Head(s)>> \o InsertSorted(Tail(s), e)

(* faulty variant: the table is left as linked *)
sort_unstable_noop(s) == s

(* faulty variant: a single insertion step, which leaves a sorted table alone
   but does not finish an unsorted one *)
sort_unstable_one_step(s) ==
    IF s = <<>> THEN <<>>
    ELSE InsertSorted(Tail(s), Head(s))

RECURSIVE sort_unstable(_)
sort_unstable(s) ==
    IF s = <<>> THEN <<>>
    ELSE InsertSorted(sort_unstable(Tail(s)), Head(s))

----------------------------------------------------------------------------
(* Trap frame (aarch64): r[0..30], usp, tpidr, elr, spsr *)

NumRegs == 31

TrapFrame_new == [r |-> [i \in 0..(NumRegs - 1) |-> 0], usp |-> 0, tpidr |-> 0,
                  elr |-> 0, spsr |-> 0]

(* the frame the trampoline saves for a kernel-mode trap taken at address elr *)
KernelFrame(elr) == [r |-> [i \in 0..(NumRegs - 1) |-> i + 1], usp |-> 40,
                     tpidr |-> 41, elr |-> elr, spsr |-> 5]

ip(f) == f.elr

set_ip(f, addr) == [f EXCEPT !.elr = addr]

(* faulty variant: the comparator reports Equal for every entry at or above the key *)
RECURSIVE binary_search_by_ge(_, _, _, _)
binary_search_by_ge(entries, key, lo, hi) ==
    IF lo > hi THEN {0}
    ELSE UNION { IF entries[mid].from >= key THEN {mid}
                 ELSE binary_search_by_ge(entries, key, mid + 1, hi)
                 : mid \in lo..hi }

(* slice::binary_search_by over entries[lo..hi] (1-based, inclusive) with the
   comparator e.from.cmp(key): the set of results any probe order can give;
   0 is Err, an index is Ok(index).  Which of several equal keys is found is
   left open by the library contract. *)
RECURSIVE binary_search_by(_, _, _, _)
binary_search_by(entries, key, lo, hi) ==
    IF lo > hi THEN {0}
    ELSE UNION { IF entries[mid].from = key THEN {mid}
                 ELSE IF entries[mid].from < key
                      THEN binary_search_by(entries, key, mid + 1, hi)
                      ELSE binary_search_by(entries, key, lo, mid - 1)
                 : mid \in lo..hi }

(* faulty variant: the matched entry's own faulting address is written back *)
fixup_exception_from(f, entries) ==
    { IF entry # 0
      THEN [ok |-> TRUE, tf |-> set_ip(f, entries[entry].from)]
      ELSE [ok |-> FALSE, tf |-> f]
      : entry \in binary_search_by(entries, ip(f), 1, Len(entries)) }

(* TrapFrame::fixup_exception: the possible (result, frame) pairs *)
fixup_exception(f, entries) ==
    { IF entry # 0
      THEN [ok |-> TRUE, tf |-> set_ip(f, entries[entry].to)]
      ELSE [ok |-> FALSE, tf |-> f]
      : entry \in binary_search_by(entries, ip(f), 1, Len(entries)) }

----------------------------------------------------------------------------
(* Calls recorded while a trap is dispatched *)

PageFaultCall(vaddr, flags, res) ==
    [ev |-> "PAGE_FAULT", vaddr |-> vaddr, flags |-> flags, res |-> res]

FixupCall(res) == [ev |-> "fixup_exception", vaddr |-> 0, flags |-> {}, res |-> res]

IrqCall == [ev |-> "IRQ", vaddr |-> 0, flags |-> {}, res |-> TRUE]

Panic == [ev |-> "panic", vaddr |-> 0, flags |-> {}, res |-> FALSE]

(* ReturnReason *)
NoReason == [tag |-> "None", vaddr |-> 0, flags |-> {}, ec |-> 0, iss |-> 0, stval |-> 0]

Unknown == [NoReason EXCEPT !.tag = "Unknown"]

Interrupt == [NoReason EXCEPT !.tag = "Interrupt"]

Syscall == [NoReason EXCEPT !.tag = "Syscall"]

PageFault(vaddr, flags) ==
    [NoReason EXCEPT !.tag = "PageFault", !.vaddr = vaddr, !.flags = flags]

Exception(esr, stval) ==
    [NoReason EXCEPT !.tag = "Exception", !.ec = esr.EC, !.iss = esr.ISS, !.stval = stval]

NoTrap == [kind |-> "None", source |-> "None", esr |-> [EC |-> 0, ISS |-> 0], far |-> 0]

----------------------------------------------------------------------------
(* Kernel-mode dispatch.  `handled` is what the PAGE_FAULT handler returns if
   it is called.  Each handler yields the set of possible outcomes
   [tf, trace, fatal]. *)

(* faulty variant: the fixup table is tried without calling the PAGE_FAULT handler *)
handle_instruction_abort_skip_handler(f, iss, far, handled, entries) ==
    IF ~is_valid_page_fault(iss)
    THEN {[tf |-> f, trace |-> <<Panic>>, fatal |-> TRUE]}
    ELSE { IF o.ok
           THEN [tf |-> o.tf, trace |-> <<FixupCall(TRUE)>>, fatal |-> FALSE]
           ELSE [tf |-> o.tf, trace |-> <<FixupCall(FALSE), Panic>>, fatal |-> TRUE]
           : o \in fixup_exception(f, entries) }

handle_instruction_abort(f, iss, far, handled, entries) ==
    LET access_flags == {"EXECUTE"}
        vaddr == far
    IN  IF ~is_valid_page_fault(iss)
        THEN {[tf |-> f, trace |-> <<Panic>>, fatal |-> TRUE]}
        ELSE IF handled
        THEN {[tf |-> f, trace |-> <<PageFaultCall(vaddr, access_flags, TRUE)>>,
               fatal |-> FALSE]}
        ELSE { IF o.ok
               THEN [tf |-> o.tf,
                     trace |-> <<PageFaultCall(vaddr, access_flags, FALSE), FixupCall(TRUE)>>,
                     fatal |-> FALSE]
               ELSE [tf |-> o.tf,
                     trace |-> <<PageFaultCall(vaddr, access_flags, FALSE), FixupCall(FALSE),
                                 Panic>>,
                     fatal |-> TRUE]
               : o \in fixup_exception(f, entries) }

(* faulty variant: the fixup table is consulted before the PAGE_FAULT handler *)
handle_data_abort_fixup_first(f, iss, far, handled, entries) ==
    LET access_flags == data_abort_access_flags(iss)
        vaddr == far
    IN  IF ~is_valid_page_fault(iss)
        THEN {[tf |-> f, trace |-> <<Panic>>, fatal |-> TRUE]}
        ELSE { IF o.ok
               THEN [tf |-> o.tf, trace |-> <<FixupCall(TRUE)>>, fatal |-> FALSE]
               ELSE IF handled
               THEN [tf |-> o.tf,
                     trace |-> <<FixupCall(FALSE), PageFaultCall(vaddr, access_flags, TRUE)>>,
                     fatal |-> FALSE]
               ELSE [tf |-> o.tf,
                     trace |-> <<FixupCall(FALSE), PageFaultCall(vaddr, access_flags, FALSE),
                                 Panic>>,
                     fatal |-> TRUE]
               : o \in fixup_exception(f, entries) }

handle_data_abort(f, iss, far, handled, entries) ==
    LET access_flags == data_abort_access_flags(iss)
        vaddr == far
    IN  IF ~is_valid_page_fault(iss)
        THEN {[tf |-> f, trace |-> <<Panic>>, fatal |-> TRUE]}
        ELSE IF handled
        THEN {[tf |-> f, trace |-> <<PageFaultCall(vaddr, access_flags, TRUE)>>,
               fatal |-> FALSE]}
        ELSE { IF o.ok
               THEN [tf |-> o.tf,
                     trace |-> <<PageFaultCall(vaddr, access_flags, FALSE), FixupCall(TRUE)>>,
                     fatal |-> FALSE]
               ELSE [tf |-> o.tf,
                     trace |-> <<PageFaultCall(vaddr, access_flags, FALSE), FixupCall(FALSE),
                                 Panic>>,
                     fatal |-> TRUE]
               : o \in fixup_exception(f, entries) }

(* faulty variant: a class without an arm is logged and the trap resumes *)
handle_sync_exception_ignores_unhandled(f, esr, far, handled, entries) ==
    LET iss == esr.ISS
    IN  CASE esr.EC = EC_InstrAbortCurrentEL ->
                handle_instruction_abort(f, iss, far, handled, entries)
          [] esr.EC = EC_DataAbortCurrentEL ->
                handle_data_abort(f, iss, far, handled, entries)
          [] esr.EC = EC_Brk64 ->
                {[tf |-> [f EXCEPT !.elr = f.elr + 4], trace |-> <<>>, fatal |-> FALSE]}
          [] OTHER ->
                {[tf |-> f, trace |-> <<>>, fatal |-> FALSE]}

(* faulty variant: the breakpoint instruction is stepped over by half its width *)
handle_sync_exception_half_step(f, esr, far, handled, entries) ==
    LET iss == esr.ISS
    IN  CASE esr.EC = EC_InstrAbortCurrentEL ->
                handle_instruction_abort(f, iss, far, handled, entries)
          [] esr.EC = EC_DataAbortCurrentEL ->
                handle_data_abort(f, iss, far, handled, entries)
          [] esr.EC = EC_Brk64 ->
                {[tf |-> [f EXCEPT !.elr = f.elr + 2], trace |-> <<>>, fatal |-> FALSE]}
          [] OTHER ->
                {[tf |-> f, trace |-> <<Panic>>, fatal |-> TRUE]}

handle_sync_exception(f, esr, far, handled, entries) ==
    LET iss == esr.ISS
    IN  CASE esr.EC = EC_InstrAbortCurrentEL ->
                handle_instruction_abort(f, iss, far, handled, entries)
          [] esr.EC = EC_DataAbortCurrentEL ->
                handle_data_abort(f, iss, far, handled, entries)
          [] esr.EC = EC_Brk64 ->
                {[tf |-> [f EXCEPT !.elr = f.elr + 4], trace |-> <<>>, fatal |-> FALSE]}
          [] OTHER ->
                {[tf |-> f, trace |-> <<Panic>>, fatal |-> TRUE]}

(* faulty variant: the interrupt is acknowledged without calling the handler *)
handle_irq_exception_no_callback(f) == [tf |-> f, trace |-> <<>>, fatal |-> FALSE]

handle_irq_exception(f) == [tf |-> f, trace |-> <<IrqCall>>, fatal |-> FALSE]

(* faulty variant: the unsupported trap is reported and the handler returns *)
invalid_exception_returns(f, kind, source) == [tf |-> f, trace |-> <<>>, fatal |-> FALSE]

invalid_exception(f, kind, source) == [tf |-> f, trace |-> <<Panic>>, fatal |-> TRUE]

----------------------------------------------------------------------------
(* User-mode round trip *)

(* faulty variant: the new session starts with interrupts masked *)
UserContext_new_irq_masked(entry, ustack_top, arg0) ==
    [tf |-> [r |-> [i \in 0..(NumRegs - 1) |-> IF i = 0 THEN arg0 ELSE 0],
             usp |-> ustack_top, tpidr |-> 0, elr |-> entry, spsr |-> 128],
     sp_el1 |-> 0]

UserContext_new(entry, ustack_top, arg0) ==
    [tf |-> [r |-> [i \in 0..(NumRegs - 1) |-> IF i = 0 THEN arg0 ELSE 0],
             usp |-> ustack_top, tpidr |-> 0, elr |-> entry, spsr |-> 0],
     sp_el1 |-> 0]

(* faulty variant: the sub-code is not checked for a data abort from user mode *)
handle_data_abort_lower_unchecked(ctx, iss, far) ==
    [ret |-> PageFault(far, data_abort_access_flags(iss) \cup {"USER"}), trace |-> <<>>,
     fatal |-> FALSE]

handle_data_abort_lower(ctx, iss, far) ==
    LET access_flags == data_abort_access_flags(iss) \cup {"USER"}
        vaddr == far
    IN  IF ~is_valid_page_fault(iss)
        THEN [ret |-> NoReason, trace |-> <<Panic>>, fatal |-> TRUE]
        ELSE [ret |-> PageFault(vaddr, access_flags), trace |-> <<>>, fatal |-> FALSE]

(* faulty variant: the USER flag is left out for an instruction abort from user mode *)
handle_instruction_abort_lower_no_user(ctx, iss, far) ==
    IF ~is_valid_page_fault(iss)
    THEN [ret |-> NoReason, trace |-> <<Panic>>, fatal |-> TRUE]
    ELSE [ret |-> PageFault(far, {"EXECUTE"}), trace |-> <<>>, fatal |-> FALSE]

handle_instruction_abort_lower(ctx, iss, far) ==
    LET access_flags == {"EXECUTE"} \cup {"USER"}
        vaddr == far
    IN  IF ~is_valid_page_fault(iss)
        THEN [ret |-> NoReason, trace |-> <<Panic>>, fatal |-> TRUE]
        ELSE [ret |-> PageFault(vaddr, access_flags), trace |-> <<>>, fatal |-> FALSE]

(* the names of the calls of a trace, in order *)
CallNames(calls) == [k \in 1..Len(calls) |-> calls[k].ev]

(* faulty variant: the system-call class has no arm of its own *)
run_no_svc_arm(ctx, tp_kind, esr, far) ==
    LET iss == esr.ISS
        m == CASE tp_kind = "Irq" ->
                    [ret |-> Interrupt, trace |-> <<IrqCall>>, fatal |-> FALSE]
              [] tp_kind = "Synchronous" ->
                    ( CASE esr.EC = EC_DataAbortLowerEL ->
                             handle_data_abort_lower(ctx, iss, far)
                        [] esr.EC = EC_InstrAbortLowerEL ->
                             handle_instruction_abort_lower(ctx, iss, far)
                        [] OTHER ->
                             [ret |-> Exception(esr, far), trace |-> <<>>, fatal |-> FALSE] )
              [] OTHER ->
                    [ret |-> Unknown, trace |-> <<>>, fatal |-> FALSE]
    IN  [ret |-> m.ret, trace |-> m.trace, fatal |-> m.fatal,
         irqs |-> IF m.fatal THEN FALSE ELSE TRUE,
         steps |-> <<"match">> \o CallNames(m.trace)
                     \o (IF m.fatal THEN <<>> ELSE <<"enable_irqs">>)]

(* faulty variant: interrupt delivery is re-enabled as soon as enter_user returns *)
run_enable_before_match(ctx, tp_kind, esr, far) ==
    LET iss == esr.ISS
        m == CASE tp_kind = "Irq" ->
                    [ret |-> Interrupt, trace |-> <<IrqCall>>, fatal |-> FALSE]
              [] tp_kind = "Synchronous" ->
                    ( CASE esr.EC = EC_SVC64 ->
                             [ret |-> Syscall, trace |-> <<>>, fatal |-> FALSE]
                        [] esr.EC = EC_DataAbortLowerEL ->
                             handle_data_abort_lower(ctx, iss, far)
                        [] esr.EC = EC_InstrAbortLowerEL ->
                             handle_instruction_abort_lower(ctx, iss, far)
                        [] OTHER ->
                             [ret |-> Exception(esr, far), trace |-> <<>>, fatal |-> FALSE] )
              [] OTHER ->
                    [ret |-> Unknown, trace |-> <<>>, fatal |-> FALSE]
    IN  [ret |-> m.ret, trace |-> m.trace, fatal |-> m.fatal,
         irqs |-> IF m.fatal THEN FALSE ELSE TRUE,
         steps |-> <<"enable_irqs", "match">> \o CallNames(m.trace)]

(* UserContext::run from the return of enter_user on: the match on tp_kind,
   then enable_irqs.  Yields [ret, trace, fatal, irqs, steps]. *)
run(ctx, tp_kind, esr, far) ==
    LET iss == esr.ISS
        m == CASE tp_kind = "Irq" ->
                    [ret |-> Interrupt, trace |-> <<IrqCall>>, fatal |-> FALSE]
              [] tp_kind = "Synchronous" ->
                    ( CASE esr.EC = EC_SVC64 ->
                             [ret |-> Syscall, trace |-> <<>>, fatal |-> FALSE]
                        [] esr.EC = EC_DataAbortLowerEL ->
                             handle_data_abort_lower(ctx, iss, far)
                        [] esr.EC = EC_InstrAbortLowerEL ->
                             handle_instruction_abort_lower(ctx, iss, far)
                        [] OTHER ->
                             [ret |-> Exception(esr, far), trace |-> <<>>, fatal |-> FALSE] )
              [] OTHER ->
                    [ret |-> Unknown, trace |-> <<>>, fatal |-> FALSE]
    IN  [ret |-> m.ret, trace |-> m.trace, fatal |-> m.fatal,
         irqs |-> IF m.fatal THEN FALSE ELSE TRUE,
         steps |-> <<"match">> \o CallNames(m.trace)
                     \o (IF m.fatal THEN <<>> ELSE <<"enable_irqs">>)]

----------------------------------------------------------------------------
(* Inputs *)

TrapKinds == {"Synchronous", "Irq", "Fiq", "SError"}

TrapSources == {"CurrentSpEl0", "CurrentSpElx", "LowerAArch64", "LowerAArch32"}

(* the vector-table slots of a trap taken in kernel mode that have no handler:
   everything but Synchronous and Irq on the current stack pointer *)
InvalidKernelTraps ==
    {ks \in TrapKinds \X {"CurrentSpEl0", "CurrentSpElx"} :
        ~(ks[1] \in {"Synchronous", "Irq"} /\ ks[2] = "CurrentSpElx")}

(* fault-status sub-codes: translation L1, permission L3, access flag L1,
   external abort on table walk L0, alignment *)
DFSCSamples == {5, 15, 9, 20, 33}

ISSSamples == {dfsc + 64 * wnr + 256 * cm : dfsc \in DFSCSamples, wnr \in 0..1, cm \in 0..1}

KernelECs == {EC_InstrAbortCurrentEL, EC_DataAbortCurrentEL, EC_Brk64, EC_Unknown,
              EC_SVC64, EC_PCAlignmentFault}

AbortECs == {EC_InstrAbortCurrentEL, EC_DataAbortCurrentEL,
             EC_InstrAbortLowerEL, EC_DataAbortLowerEL}

(* the payloads sampled for a class: every sample for an abort, whose payload
   is decoded; for the other classes, whose payload is only passed on, the
   samples with the low six bits 33 *)
Payloads(ec, isss) ==
    IF ec \in AbortECs THEN isss ELSE {iss \in isss : iss % 64 = 33}

UserECs == {EC_SVC64, EC_DataAbortLowerEL, EC_InstrAbortLowerEL, EC_BreakpointLowerEL,
            EC_IllegalExecutionState, EC_PCAlignmentFault, EC_SPAlignmentFault}

----------------------------------------------------------------------------
(* Actions *)

init_exception_table ==
    /\ pc = "kernel"
    /\ inits < MaxInits
    /\ ex_table' = sort_unstable(ex_table)
    /\ initialized' = TRUE
    /\ inits' = inits + 1
    /\ UNCHANGED <<linked, pc, trap, tf, tf_entry, uctx, irqs_enabled, trace, ret,
                   iss_in, cls, steps, harness>>

(* a synchronous exception is taken in kernel mode: the hardware sets
   ESR_EL1/FAR_EL1 and the trampoline saves the frame *)
TakeKernelSync(ecs, isss, fars) ==
    /\ pc = "kernel"
    /\ \E ec \in ecs, far \in fars, elr \in Addrs :
       \E iss \in Payloads(ec, isss) :
          /\ trap' = [kind |-> "Synchronous", source |-> "CurrentSpElx",
                      esr |-> [EC |-> ec, ISS |-> iss], far |-> far]
          /\ tf' = KernelFrame(elr)
          /\ tf_entry' = KernelFrame(elr)
    /\ pc' = "ktrap"
    /\ trace' = <<>>
    /\ UNCHANGED <<linked, ex_table, initialized, uctx, irqs_enabled, ret, iss_in, cls, steps, inits, harness>>

TakeKernelIrq ==
    /\ pc = "kernel"
    /\ \E elr \in Addrs :
          /\ tf' = KernelFrame(elr)
          /\ tf_entry' = KernelFrame(elr)
    /\ trap' = [NoTrap EXCEPT !.kind = "Irq", !.source = "CurrentSpElx"]
    /\ pc' = "ktrap"
    /\ trace' = <<>>
    /\ UNCHANGED <<linked, ex_table, initialized, uctx, irqs_enabled, ret, iss_in, cls, steps, inits, harness>>

(* a trap is taken through a vector-table slot the port does not support *)
TakeKernelInvalid ==
    /\ pc = "kernel"
    /\ \E ks \in InvalidKernelTraps, elr \in Addrs :
          /\ trap' = [NoTrap EXCEPT !.kind = ks[1], !.source = ks[2]]
          /\ tf' = KernelFrame(elr)
          /\ tf_entry' = KernelFrame(elr)
    /\ pc' = "ktrap"
    /\ trace' = <<>>
    /\ UNCHANGED <<linked, ex_table, initialized, uctx, irqs_enabled, ret, iss_in, cls, steps, inits, harness>>

HandleInvalidException ==
    /\ pc = "ktrap"
    /\ <<trap.kind, trap.source>> \in InvalidKernelTraps
    /\ LET o == invalid_exception(tf, trap.kind, trap.source)
       IN  /\ tf' = o.tf
           /\ trace' = o.trace
           /\ pc' = IF o.fatal THEN "fatal" ELSE "kret"
    /\ UNCHANGED <<linked, ex_table, initialized, trap, tf_entry, uctx, irqs_enabled, ret,
                   iss_in, cls, steps, inits, harness>>

HandleSyncException ==
    /\ pc = "ktrap"
    /\ trap.kind = "Synchronous"
    /\ trap.source = "CurrentSpElx"
    /\ \E handled \in BOOLEAN :
       \E o \in handle_sync_exception(tf, trap.esr, trap.far, handled, ex_table) :
          /\ tf' = o.tf
          /\ trace' = o.trace
          /\ pc' = IF o.fatal THEN "fatal" ELSE "kret"
    /\ UNCHANGED <<linked, ex_table, initialized, trap, tf_entry, uctx, irqs_enabled, ret,
                   iss_in, cls, steps, inits, harness>>

HandleIrqException ==
    /\ pc = "ktrap"
    /\ trap.kind = "Irq"
    /\ trap.source = "CurrentSpElx"
    /\ LET o == handle_irq_exception(tf)
       IN  /\ tf' = o.tf
           /\ trace' = o.trace
           /\ pc' = IF o.fatal THEN "fatal" ELSE "kret"
    /\ UNCHANGED <<linked, ex_table, initialized, trap, tf_entry, uctx, irqs_enabled, ret,
                   iss_in, cls, steps, inits, harness>>

(* the trampoline restores the registers from the frame and resumes at tf.elr *)
KernelResume ==
    /\ pc = "kret"
    /\ pc' = "kernel"
    /\ trap' = NoTrap
    /\ tf' = TrapFrame_new
    /\ tf_entry' = TrapFrame_new
    /\ trace' = <<>>
    /\ UNCHANGED <<linked, ex_table, initialized, uctx, irqs_enabled, ret, iss_in, cls, steps, inits, harness>>

(* run(): disable_irqs, then enter_user saves the kernel stack pointer in the
   context and switches to user mode *)
RunEnter ==
    /\ pc = "kernel"
    /\ irqs_enabled' = FALSE
    /\ uctx' = [uctx EXCEPT !.sp_el1 = 64]
    /\ pc' = "user"
    /\ ret' = NoReason
    /\ trace' = <<>>
    /\ steps' = <<"disable_irqs", "enter_user">>
    /\ UNCHANGED <<linked, ex_table, initialized, trap, tf, tf_entry, iss_in, cls, inits,
                   harness>>

(* a trap from the user-mode session: the user registers are saved in the
   context's frame, enter_user returns the kind, run() classifies it *)
RunReturn(kinds, ecs, isss, fars) ==
    /\ pc = "user"
    /\ \E kind \in kinds, ec \in ecs, far \in fars, uelr \in Addrs :
       \E iss \in Payloads(ec, isss) :
          LET esr == IF kind = "Synchronous" THEN [EC |-> ec, ISS |-> iss] ELSE NoTrap.esr
              fa == IF kind = "Synchronous" THEN far ELSE 0
              ctx == [uctx EXCEPT !.tf.elr = uelr]
              o == run(ctx, kind, esr, fa)
          IN  /\ trap' = [kind |-> kind, source |-> "LowerAArch64", esr |-> esr, far |-> fa]
              /\ uctx' = ctx
              /\ ret' = o.ret
              /\ trace' = o.trace
              /\ irqs_enabled' = o.irqs
              /\ steps' = steps \o o.steps
              /\ pc' = IF o.fatal THEN "fatal" ELSE "uret"
    /\ UNCHANGED <<linked, ex_table, initialized, tf, tf_entry, iss_in, cls, inits, harness>>

(* the caller of run() takes the ReturnReason and goes on *)
RunCallerContinues ==
    /\ pc = "uret"
    /\ pc' = "kernel"
    /\ trap' = NoTrap
    /\ ret' = NoReason
    /\ trace' = <<>>
    /\ steps' = <<>>
    /\ UNCHANGED <<linked, ex_table, initialized, tf, tf_entry, uctx, irqs_enabled,
                   iss_in, cls, inits, harness>>

(* classifier harness: apply both classifiers to the payload *)
Classify ==
    /\ pc = "classify"
    /\ cls' = [valid |-> is_valid_page_fault(iss_in),
               flags |-> data_abort_access_flags(iss_in)]
    /\ pc' = "classified"
    /\ UNCHANGED <<linked, ex_table, initialized, trap, tf, tf_entry, uctx, irqs_enabled,
                   trace, ret, iss_in, steps, inits, harness>>

----------------------------------------------------------------------------
(* Specifications *)

NoCls == [valid |-> FALSE, flags |-> {}]

(* the harnesses at rest *)
HarnessOff ==
    /\ ctor_in = [off |-> TRUE]
    /\ built = [off |-> TRUE]
    /\ cores = [off |-> TRUE]
    /\ x86 = [off |-> TRUE]
    /\ a64 = [off |-> TRUE]
    /\ exc = [off |-> TRUE]

InitWith(tables) ==
    /\ linked \in tables
    /\ ex_table = linked
    /\ initialized = FALSE
    /\ pc = "kernel"
    /\ trap = NoTrap
    /\ tf = TrapFrame_new
    /\ tf_entry = TrapFrame_new
    /\ uctx = UserContext_new(0, 48, 7)
    /\ irqs_enabled \in BOOLEAN
    /\ trace = <<>>
    /\ ret = NoReason
    /\ iss_in = 0
    /\ cls = NoCls
    /\ steps = <<>>
    /\ inits = 0
    /\ HarnessOff

(* trap dispatch with every sampled syndrome, over small tables *)
Init == InitWith(Tables(MaxTrapEntries))

Next ==
    \/ init_exception_table
    \/ TakeKernelSync(KernelECs, ISSSamples, FarSamples)
    \/ TakeKernelIrq
    \/ TakeKernelInvalid
    \/ HandleSyncException
    \/ HandleIrqException
    \/ HandleInvalidException
    \/ KernelResume
    \/ RunEnter
    \/ RunReturn(TrapKinds, UserECs, ISSSamples, FarSamples)
    \/ RunCallerContinues

Spec == Init /\ [][Next]_vars

(* the exception table in full, reached through kernel-mode aborts with a
   valid page-fault syndrome *)
InitTable == InitWith(Tables(MaxEntries))

NextTable ==
    \/ init_exception_table
    \/ TakeKernelSync({EC_InstrAbortCurrentEL, EC_DataAbortCurrentEL}, {15 + 64}, {16})
    \/ HandleSyncException
    \/ KernelResume

SpecTable == InitTable /\ [][NextTable]_vars

(* the classifiers over every payload of ISSBits bits *)
InitPure ==
    /\ linked = <<>>
    /\ ex_table = <<>>
    /\ initialized = FALSE
    /\ pc = "classify"
    /\ trap = NoTrap
    /\ tf = TrapFrame_new
    /\ tf_entry = TrapFrame_new
    /\ uctx = UserContext_new(0, 48, 7)
    /\ irqs_enabled = TRUE
    /\ trace = <<>>
    /\ ret = NoReason
    /\ iss_in \in 0..(2 ^ ISSBits - 1)
    /\ cls = NoCls
    /\ steps = <<>>
    /\ inits = 0
    /\ HarnessOff

NextPure == Classify

SpecPure == InitPure /\ [][NextPure]_vars

----------------------------------------------------------------------------
(* Vocabulary of the properties *)

Dispatched == pc \in {"kret", "uret", "fatal"}

Calls(ev) == {k \in 1..Len(trace) : trace[k].ev = ev}

FixupRan == Calls("fixup_exception") # {}

FixupResult == \E k \in Calls("fixup_exception") : trace[k].res

(* indices of the entries whose faulting address is a *)
Matching(a) == {i \in 1..Len(ex_table) : ex_table[i].from = a}

(* entry i is the only recovery the table gives for its faulting address *)
Unambiguous(i) ==
    \A j \in Matching(ex_table[i].from) : ex_table[j].to = ex_table[i].to

Occurrences(t, e) == Cardinality({i \in 1..Len(t) : t[i] = e})

IsPermutation(a, b) ==
    /\ Len(a) = Len(b)
    /\ \A i \in 1..Len(a) : Occurrences(a, a[i]) = Occurrences(b, a[i])

DistinctFaultingAddresses(t) ==
    \A i, j \in 1..Len(t) : t[i].from = t[j].from => i = j

(* the fault-status sub-code of a payload, decoded by position *)
SubCode(iss) == iss % 64

TranslationOrPermission(iss) == (SubCode(iss) \div 4) \in {1, 3}

WriteRule(iss) == IF Bit(iss, 6) = 1 /\ Bit(iss, 8) = 0 THEN "WRITE" ELSE "READ"

----------------------------------------------------------------------------
(* Exception table and fixup (SpecTable) *)

(* C1, as stated: once init_exception_table has run, fixup_exception on a frame
   whose instruction pointer is the faulting address of any entry e returns
   true and sets the instruction pointer to exactly e's recovery address. *)
C1_AsStated ==
    (initialized /\ FixupRan) =>
        \A i \in Matching(ip(tf_entry)) :
            FixupResult /\ ip(tf) = ex_table[i].to

(* C1, amended: once init_exception_table has run, fixup_exception on a frame
   whose instruction pointer is the faulting address of some entry returns
   true and sets the instruction pointer to the recovery address of an entry
   with that faulting address; it is exactly e's recovery address for every
   entry e whose faulting address no entry with another recovery address
   shares. *)
C1_FixupFindsEntry ==
    (initialized /\ FixupRan /\ Matching(ip(tf_entry)) # {}) =>
        /\ FixupResult
        /\ pc = "kret"
        /\ \E i \in Matching(ip(tf_entry)) : ip(tf) = ex_table[i].to
        /\ \A i \in Matching(ip(tf_entry)) : Unambiguous(i) => ip(tf) = ex_table[i].to

C1_Witness ==
    /\ initialized
    /\ linked # ex_table
    /\ Len(ex_table) = 3
    /\ DistinctFaultingAddresses(ex_table)
    /\ FixupRan /\ FixupResult
    /\ ip(tf_entry) = ex_table[3].from
    /\ ip(tf) = ex_table[3].to
    /\ ip(tf) # ip(tf_entry)

(* C2, as stated: after init_exception_table the table is a permutation of the
   input entries, strictly ascending by faulting address. *)
C2_AsStated ==
    initialized =>
        /\ IsPermutation(ex_table, linked)
        /\ \A i \in 1..(Len(ex_table) - 1) : ex_table[i].from < ex_table[i + 1].from

(* C2, amended: after init_exception_table the table is a permutation of the
   input entries, ascending by faulting address with entries of equal
   faulting address ordered by recovery address; it is strictly ascending by
   faulting address when the input has no two entries with the same faulting
   address. *)
C2_SortedPermutation ==
    initialized =>
        /\ IsPermutation(ex_table, linked)
        /\ \A i \in 1..(Len(ex_table) - 1) :
              \/ ex_table[i].from < ex_table[i + 1].from
              \/ /\ ex_table[i].from = ex_table[i + 1].from
                 /\ ex_table[i].to <= ex_table[i + 1].to
        /\ DistinctFaultingAddresses(linked) =>
              \A i \in 1..(Len(ex_table) - 1) : ex_table[i].from < ex_table[i + 1].from

C2_Witness ==
    /\ initialized
    /\ Len(linked) = 3
    /\ DistinctFaultingAddresses(linked)
    /\ linked[1].from > linked[2].from /\ linked[2].from > linked[3].from
    /\ ex_table = <<linked[3], linked[2], linked[1]>>

(* C3: fixup_exception on a frame whose instruction pointer is the faulting
   address of no entry returns false and leaves the instruction pointer (and
   the rest of the frame) unchanged. *)
C3_NoMatchNoChange ==
    (FixupRan /\ Matching(ip(tf_entry)) = {}) =>
        /\ ~FixupResult
        /\ tf = tf_entry

C3_Witness ==
    /\ FixupRan /\ ~FixupResult
    /\ initialized
    /\ Len(ex_table) = 2
    /\ ex_table[1].from < ip(tf_entry) /\ ip(tf_entry) < ex_table[2].from
    /\ tf = tf_entry
    /\ pc = "fatal"

----------------------------------------------------------------------------
(* Trap dispatch (Spec) *)

KernelAbort ==
    /\ pc \in {"kret", "fatal"}
    /\ trap.source = "CurrentSpElx"
    /\ trap.kind = "Synchronous"
    /\ trap.esr.EC \in {EC_InstrAbortCurrentEL, EC_DataAbortCurrentEL}

UserAbort ==
    /\ pc \in {"uret", "fatal"}
    /\ trap.source = "LowerAArch64"
    /\ trap.kind = "Synchronous"
    /\ trap.esr.EC \in {EC_InstrAbortLowerEL, EC_DataAbortLowerEL}

(* C4: for a kernel-mode instruction or data abort with a valid page-fault
   syndrome the page-fault handler is called first; if it returns true the
   trap resumes with the frame unchanged and the fixup table is not consulted;
   only if it returns false is fixup_exception called; a match resumes at the
   recovery address of a matching entry, no match is a fatal abort. *)
C4_HandlerThenFixup ==
    (KernelAbort /\ TranslationOrPermission(trap.esr.ISS)) =>
        /\ Len(trace) >= 1
        /\ trace[1].ev = "PAGE_FAULT"
        /\ Calls("PAGE_FAULT") = {1}
        /\ trace[1].res =>
              /\ pc = "kret"
              /\ tf = tf_entry
              /\ trace = <<trace[1]>>
        /\ ~trace[1].res =>
              /\ Len(trace) >= 2
              /\ trace[2].ev = "fixup_exception"
              /\ Calls("fixup_exception") = {2}
              /\ trace[2].res =>
                    /\ pc = "kret"
                    /\ Len(trace) = 2
                    /\ \E i \in Matching(ip(tf_entry)) : ip(tf) = ex_table[i].to
              /\ ~trace[2].res =>
                    /\ pc = "fatal"
                    /\ trace[Len(trace)].ev = "panic"

C4_Witness ==
    /\ KernelAbort
    /\ trap.esr.EC = EC_DataAbortCurrentEL
    /\ trace = <<PageFaultCall(trap.far, {"WRITE"}, FALSE), FixupCall(TRUE)>>
    /\ pc = "kret"
    /\ ip(tf) # ip(tf_entry)

(* C5: a memory abort whose fault-status sub-code is neither a translation
   fault nor a permission fault ends in a fatal abort, in kernel mode and from
   a user-mode session alike, without the page-fault handler being called, the
   fixup table consulted or a ReturnReason produced. *)
C5_InvalidSubCodeFatal ==
    ((KernelAbort \/ UserAbort) /\ ~TranslationOrPermission(trap.esr.ISS)) =>
        /\ pc = "fatal"
        /\ trace = <<Panic>>
        /\ ret = NoReason
        /\ KernelAbort => tf = tf_entry

C5_Witness ==
    /\ UserAbort
    /\ trap.esr.EC = EC_DataAbortLowerEL
    /\ SubCode(trap.esr.ISS) = 20
    /\ pc = "fatal"
    /\ trace = <<Panic>>

(* C8: every PageFault returned by run() carries USER: a valid data abort from
   user mode yields PageFault(far, {WRITE, USER}) or PageFault(far, {READ,
   USER}) by the write/cache-maintenance rule, a valid instruction abort
   yields PageFault(far, {EXECUTE, USER}), and neither is fatal. *)
C8_UserPageFaultFlags ==
    /\ (pc = "uret" /\ ret.tag = "PageFault") => "USER" \in ret.flags
    /\ (UserAbort /\ TranslationOrPermission(trap.esr.ISS)) =>
          /\ pc = "uret"
          /\ trap.esr.EC = EC_DataAbortLowerEL =>
                ret = PageFault(trap.far, {WriteRule(trap.esr.ISS), "USER"})
          /\ trap.esr.EC = EC_InstrAbortLowerEL =>
                ret = PageFault(trap.far, {"EXECUTE", "USER"})

C8_Witness ==
    /\ pc = "uret"
    /\ trap.esr = [EC |-> EC_DataAbortLowerEL, ISS |-> 15 + 64]
    /\ ret = PageFault(trap.far, {"WRITE", "USER"})

(* C9: a non-fatal completion of run() returns the ReturnReason its trap kind
   and exception class determine: Irq gives Interrupt, the system-call class
   gives Syscall, a data or instruction abort from lower level gives
   PageFault, every other synchronous class gives Exception with the raw
   syndrome and the faulting address. *)
C9_ReturnReasonByClass ==
    pc = "uret" =>
        /\ trap.kind = "Irq" => ret = Interrupt
        /\ trap.kind = "Synchronous" =>
              /\ trap.esr.EC = EC_SVC64 => ret = Syscall
              /\ trap.esr.EC \in {EC_DataAbortLowerEL, EC_InstrAbortLowerEL} =>
                    ret.tag = "PageFault"
              /\ trap.esr.EC \notin {EC_SVC64, EC_DataAbortLowerEL, EC_InstrAbortLowerEL} =>
                    /\ ret.tag = "Exception"
                    /\ ret.ec = trap.esr.EC
                    /\ ret.iss = trap.esr.ISS
                    /\ ret.stval = trap.far

C9_Witness ==
    /\ pc = "uret"
    /\ trap.kind = "Synchronous"
    /\ trap.esr.EC = EC_SVC64
    /\ trap.esr.ISS = 33 + 64
    /\ ret = Syscall

(* C10, as stated: the page-fault handler is called for every memory abort
   classified as a valid page fault, in kernel mode and in a user-mode session
   alike, and run() returns PageFault only after the handler has been called
   and has returned false. *)
C10_AsStated ==
    /\ ((KernelAbort \/ UserAbort) /\ TranslationOrPermission(trap.esr.ISS)) =>
          Calls("PAGE_FAULT") # {}
    /\ (pc = "uret" /\ ret.tag = "PageFault") =>
          \E k \in Calls("PAGE_FAULT") : ~trace[k].res

(* C10, amended: the page-fault handler is called by the dispatcher for every
   kernel-mode memory abort classified as a valid page fault, with the fault
   address and the access flags of the abort; in a user-mode session run()
   does not call it: a valid abort is returned as PageFault without any
   handler call. *)
C10_HandlerOnlyInKernelMode ==
    /\ (KernelAbort /\ TranslationOrPermission(trap.esr.ISS)) =>
          /\ Calls("PAGE_FAULT") = {1}
          /\ trace[1].vaddr = trap.far
          /\ trace[1].flags =
                IF trap.esr.EC = EC_DataAbortCurrentEL
                THEN {WriteRule(trap.esr.ISS)} ELSE {"EXECUTE"}
    /\ (Dispatched /\ trap.source = "LowerAArch64") => Calls("PAGE_FAULT") = {}
    /\ (pc = "uret" /\ ret.tag = "PageFault") => trace = <<>>

C10_Witness ==
    /\ pc = "uret"
    /\ ret = PageFault(trap.far, {"EXECUTE", "USER"})
    /\ trap.esr.EC = EC_InstrAbortLowerEL
    /\ trace = <<>>

----------------------------------------------------------------------------
(* Fault classifier (SpecPure) *)

(* C6: is_valid_page_fault(iss) is true exactly when the 6-bit fault-status
   sub-code is a translation-fault code 0b0001xx or a permission-fault code
   0b0011xx, whatever the other bits of iss. *)
C6_ValidPageFaultCodes ==
    pc = "classified" =>
        cls.valid = (\E level \in 0..3 : SubCode(iss_in) \in {4 + level, 12 + level})

C6_Witness ==
    /\ pc = "classified"
    /\ iss_in = 14 + 64 + 128 + 256
    /\ cls.valid

(* C7: data_abort_access_flags(iss) is WRITE exactly when bit 6 is set and bit
   8 is clear and READ otherwise; it is one of the two and holds neither
   EXECUTE nor USER. *)
C7_WriteOnlyWithoutCacheMaintenance ==
    pc = "classified" =>
        /\ cls.flags = {"WRITE"} <=> (Bit(iss_in, 6) = 1 /\ Bit(iss_in, 8) = 0)
        /\ cls.flags = {"READ"} <=> ~(Bit(iss_in, 6) = 1 /\ Bit(iss_in, 8) = 0)
        /\ cls.flags \in {{"WRITE"}, {"READ"}}

C7_Witness ==
    /\ pc = "classified"
    /\ Bit(iss_in, 6) = 1
    /\ Bit(iss_in, 8) = 1
    /\ cls.flags = {"READ"}

----------------------------------------------------------------------------
(* Unsupported traps (Spec) *)

UnrecognizedUserKind ==
    /\ pc \in {"uret", "fatal"}
    /\ trap.source = "LowerAArch64"
    /\ trap.kind \in {"Fiq", "SError"}

UnrecognizedKernelTrap ==
    /\ pc \in {"kret", "fatal"}
    /\ <<trap.kind, trap.source>> \in InvalidKernelTraps

(* C11, as stated: a trap whose kind or source is not recognized ends in a
   fatal abort: the trapped context is not resumed and run() returns no
   ReturnReason, in particular for a Fiq or SError kind from a user-mode
   session. *)
C11_AsStated ==
    (UnrecognizedKernelTrap \/ UnrecognizedUserKind) =>
        /\ pc = "fatal"
        /\ ret = NoReason

(* C11, amended: a kernel-mode trap whose kind or source is not recognized
   ends in a fatal abort with the frame untouched and is never resumed; a Fiq
   or SError kind handed to run() from a user-mode session is not fatal:
   run() returns ReturnReason::Unknown, interrupt delivery enabled, without
   calling a handler. *)
C11_UnknownKindReturnsUnknown ==
    /\ UnrecognizedKernelTrap =>
          /\ pc = "fatal"
          /\ trace = <<Panic>>
          /\ tf = tf_entry
          /\ ret = NoReason
    /\ UnrecognizedUserKind =>
          /\ pc = "uret"
          /\ ret = Unknown
          /\ trace = <<>>
          /\ irqs_enabled

C11_Witness ==
    /\ pc = "uret"
    /\ trap.kind = "SError"
    /\ trap.source = "LowerAArch64"
    /\ ret = Unknown

----------------------------------------------------------------------------
(* Breakpoint instruction in kernel mode (Spec) *)

KernelBreakpoint ==
    /\ pc \in {"kret", "fatal"}
    /\ trap.source = "CurrentSpElx"
    /\ trap.kind = "Synchronous"
    /\ trap.esr.EC = EC_Brk64

(* C20: a kernel-mode synchronous trap of the breakpoint-instruction class
   advances the saved instruction pointer by exactly 4 and resumes; no other
   frame field changes, neither the page-fault handler nor the fixup table is
   consulted, and the trap is never fatal. *)
C20_BreakpointAdvancesByFour ==
    KernelBreakpoint =>
        /\ pc = "kret"
        /\ tf.elr = tf_entry.elr + 4
        /\ tf = [tf_entry EXCEPT !.elr = tf.elr]
        /\ Calls("PAGE_FAULT") = {}
        /\ ~FixupRan
        /\ Calls("panic") = {}

C20_Witness ==
    /\ KernelBreakpoint
    /\ pc = "kret"
    /\ tf_entry.elr = 1
    /\ tf.elr = 5

----------------------------------------------------------------------------
(* Interrupt delivery around the round trip (Spec) *)

Positions(name) == {k \in 1..Len(steps) : steps[k] = name}

(* C15: in run(), interrupt delivery is disabled before the switch into user
   mode begins and stays disabled until the returning trap has been
   classified, the IRQ handler callback included; on every non-fatal return
   from run() interrupt delivery is enabled. *)
C15_IrqsOffAroundRoundTrip ==
    /\ pc = "user" =>
          /\ ~irqs_enabled
          /\ steps = <<"disable_irqs", "enter_user">>
    /\ (pc \in {"uret", "fatal"} /\ trap.source = "LowerAArch64") =>
          /\ Len(steps) >= 3
          /\ steps[1] = "disable_irqs"
          /\ steps[2] = "enter_user"
          /\ \A e \in Positions("enable_irqs") :
                /\ e = Len(steps)
                /\ \A k \in Positions("match") \cup Positions("IRQ") : k < e
          /\ Positions("IRQ") = {} <=> trap.kind # "Irq"
    /\ pc = "uret" =>
          /\ irqs_enabled
          /\ Positions("enable_irqs") # {}

C15_Witness ==
    /\ pc = "uret"
    /\ trap.kind = "Irq"
    /\ irqs_enabled
    /\ steps = <<"disable_irqs", "enter_user", "match", "IRQ", "enable_irqs">>

----------------------------------------------------------------------------
(* Repeated initialization (SpecTable) *)

Ascending(s) ==
    \A i \in 1..(Len(s) - 1) : s[i] = s[i + 1] \/ EntryLess(s[i], s[i + 1])

SameFixups(t1, t2) ==
    \A a \in Addrs : fixup_exception(KernelFrame(a), t1) = fixup_exception(KernelFrame(a), t2)

(* C19: init_exception_table on a table that is already sorted leaves every
   entry in its position, so a second initialization yields the table of the
   first, and fixup_exception gives the same results after one or two
   initializations. *)
C19_ResortIsNoOp ==
    [][ init_exception_table =>
          /\ Ascending(ex_table) => ex_table' = ex_table
          /\ inits >= 1 =>
                /\ ex_table' = ex_table
                /\ SameFixups(ex_table', ex_table) ]_vars

C19_Witness ==
    /\ inits = 2
    /\ Len(ex_table) = 3
    /\ ex_table # linked
    /\ FixupRan /\ FixupResult

----------------------------------------------------------------------------
(* Saved status register of aarch64 (SPSR_EL1): M in bits 3:0, F, I, A, D in
   bits 6, 7, 8, 9; a set mask bit means Masked *)

SPSR_M_EL0t == 0

SPSR_value(mode, d, a, i, f) == mode + 64 * f + 128 * i + 256 * a + 512 * d

SPSR_M(v) == v % 16

SPSR_D(v) == Bit(v, 9)

SPSR_A(v) == Bit(v, 8)

SPSR_I(v) == Bit(v, 7)

SPSR_F(v) == Bit(v, 6)

(* Trap frame (x86_64): the general registers, then fs_base, vector,
   error_code and the frame the processor pushes *)

X86Regs == {"rax", "rcx", "rdx", "rbx", "rbp", "rsi", "rdi",
            "r8", "r9", "r10", "r11", "r12", "r13", "r14", "r15"}

X86TrapFrame_default ==
    [r |-> [n \in X86Regs |-> 0], fs_base |-> 0, vector |-> 0, error_code |-> 0,
     rip |-> 0, cs |-> 0, rflags |-> 0, rsp |-> 0, ss |-> 0]

(* a segment selector: descriptor index and requested privilege level *)
SegmentSelector(index, rpl) == index * 8 + rpl

KCODE64_SELECTOR == SegmentSelector(2, 0)

KDATA_SELECTOR == SegmentSelector(3, 0)

UDATA_SELECTOR == SegmentSelector(5, 3)

UCODE64_SELECTOR == SegmentSelector(6, 3)

RFlags_INTERRUPT_FLAG == 2 ^ 9

RFlags_IOPL(v) == (v \div (2 ^ 12)) % 4

is_user(f) == f.cs % 4 = 3

----------------------------------------------------------------------------
(* Constructors of the user contexts *)

(* faulty variant: the argument is placed in the second register *)
aarch64_UspaceContext_new_arg_in_x1(entry, ustack_top, arg0) ==
    [r |-> [i \in 0..(NumRegs - 1) |-> IF i = 1 THEN arg0 ELSE 0],
     usp |-> ustack_top, tpidr |-> 0, elr |-> entry,
     spsr |-> SPSR_value(SPSR_M_EL0t, 1, 1, 0, 1)]

aarch64_UspaceContext_new(entry, ustack_top, arg0) ==
    [r |-> [i \in 0..(NumRegs - 1) |-> IF i = 0 THEN arg0 ELSE 0],
     usp |-> ustack_top, tpidr |-> 0, elr |-> entry,
     spsr |-> SPSR_value(SPSR_M_EL0t, 1, 1, 0, 1)]

aarch64_UspaceContext_from(trap_frame) == trap_frame

UserContext_from(f) == [tf |-> f, sp_el1 |-> 0]

x86_64_UspaceContext_new(entry, ustack_top, arg0) ==
    [X86TrapFrame_default EXCEPT
        !.r["rdi"] = arg0, !.rip = entry, !.cs = UCODE64_SELECTOR,
        !.rflags = RFlags_INTERRUPT_FLAG, !.rsp = ustack_top, !.ss = UDATA_SELECTOR]

x86_64_UspaceContext_from(f) ==
    [f EXCEPT !.cs = UCODE64_SELECTOR, !.ss = UDATA_SELECTOR]

(* arguments of the constructors *)
StackTops == {48, 49}

Args == {0, 7}

SpsrSamples ==
    {SPSR_value(mode, d, a, i, f) : mode \in {SPSR_M_EL0t, 4, 5},
                                    d \in 0..1, a \in 0..1, i \in 0..1, f \in 0..1}

NewArgs ==
    [call : {"new"}, entry : Addrs, ustack_top : StackTops, arg0 : Args]

FromArgs ==
    [call : {"from"}, tf : {[KernelFrame(e) EXCEPT !.spsr = v] : e \in Addrs, v \in SpsrSamples}]

X86FromArgs ==
    [call : {"x86_64 from"},
     tf : {[X86TrapFrame_default EXCEPT
               !.r = [n \in X86Regs |-> IF n = "rax" THEN 9 ELSE 3],
               !.fs_base = 70, !.rip = e, !.cs = sel[1], !.ss = sel[2],
               !.rflags = fl, !.rsp = 50]
            : e \in Addrs,
              sel \in {<<KCODE64_SELECTOR, KDATA_SELECTOR>>, <<UCODE64_SELECTOR, UDATA_SELECTOR>>},
              fl \in {2, 2 + RFlags_INTERRUPT_FLAG}}]

(* every variable of the trap-dispatch machine, pc excepted *)
machine == <<linked, ex_table, initialized, trap, tf, tf_entry, uctx, irqs_enabled,
             trace, ret, iss_in, cls, steps, inits>>

MachineOff ==
    /\ linked = <<>>
    /\ ex_table = <<>>
    /\ initialized = FALSE
    /\ trap = NoTrap
    /\ tf = TrapFrame_new
    /\ tf_entry = TrapFrame_new
    /\ uctx = UserContext_new(0, 48, 7)
    /\ irqs_enabled = TRUE
    /\ trace = <<>>
    /\ ret = NoReason
    /\ iss_in = 0
    /\ cls = NoCls
    /\ steps = <<>>
    /\ inits = 0

Construct(by, ctx) ==
    /\ pc = "construct"
    /\ pc' = "constructed"
    /\ built' = [by |-> by, ctx |-> ctx]
    /\ UNCHANGED <<machine, ctor_in, x86, a64, exc, cores>>

Call_UserContext_new ==
    /\ ctor_in.call = "new"
    /\ Construct("UserContext::new",
                 UserContext_new(ctor_in.entry, ctor_in.ustack_top, ctor_in.arg0))

Call_aarch64_UspaceContext_new ==
    /\ ctor_in.call = "new"
    /\ Construct("aarch64 UspaceContext::new",
                 aarch64_UspaceContext_new(ctor_in.entry, ctor_in.ustack_top, ctor_in.arg0))

Call_x86_64_UspaceContext_new ==
    /\ ctor_in.call = "new"
    /\ Construct("x86_64 UspaceContext::new",
                 x86_64_UspaceContext_new(ctor_in.entry, ctor_in.ustack_top, ctor_in.arg0))

Call_UserContext_from ==
    /\ ctor_in.call = "from"
    /\ Construct("UserContext::from", UserContext_from(ctor_in.tf))

Call_aarch64_UspaceContext_from ==
    /\ ctor_in.call = "from"
    /\ Construct("aarch64 UspaceContext::from", aarch64_UspaceContext_from(ctor_in.tf))

Call_x86_64_UspaceContext_from ==
    /\ ctor_in.call = "x86_64 from"
    /\ Construct("x86_64 UspaceContext::from", x86_64_UspaceContext_from(ctor_in.tf))

InitCtor ==
    /\ MachineOff
    /\ pc = "construct"
    /\ ctor_in \in NewArgs \cup FromArgs \cup X86FromArgs
    /\ built = [off |-> TRUE]
    /\ cores = [off |-> TRUE]
    /\ x86 = [off |-> TRUE]
    /\ a64 = [off |-> TRUE]
    /\ exc = [off |-> TRUE]

NextCtor ==
    \/ Call_UserContext_new
    \/ Call_aarch64_UspaceContext_new
    \/ Call_x86_64_UspaceContext_new
    \/ Call_UserContext_from
    \/ Call_aarch64_UspaceContext_from
    \/ Call_x86_64_UspaceContext_from

SpecCtor == InitCtor /\ [][NextCtor]_vars

----------------------------------------------------------------------------
(* Constructed frames (SpecCtor) *)

Constructed == pc = "constructed"

BuiltBy(names) == Constructed /\ built.by \in names

(* the frame inside the context that was built *)
BuiltFrame ==
    IF built.by \in {"UserContext::new", "UserContext::from"} THEN built.ctx.tf ELSE built.ctx

NewOnAArch64 == {"UserContext::new", "aarch64 UspaceContext::new"}

FromOnAArch64 == {"UserContext::from", "aarch64 UspaceContext::from"}

(* C12: every frame built by a new-user-session constructor with entry E,
   stack S and argument A has instruction pointer E, user stack pointer S,
   first-argument register A (x0 on aarch64, rdi on x86_64) and every other
   general-purpose register 0. *)
C12_NewFrameRegisters ==
    /\ BuiltBy(NewOnAArch64) =>
          /\ BuiltFrame.elr = ctor_in.entry
          /\ BuiltFrame.usp = ctor_in.ustack_top
          /\ BuiltFrame.r[0] = ctor_in.arg0
          /\ \A i \in 1..(NumRegs - 1) : BuiltFrame.r[i] = 0
    /\ BuiltBy({"x86_64 UspaceContext::new"}) =>
          /\ BuiltFrame.rip = ctor_in.entry
          /\ BuiltFrame.rsp = ctor_in.ustack_top
          /\ BuiltFrame.r["rdi"] = ctor_in.arg0
          /\ \A n \in X86Regs \ {"rdi"} : BuiltFrame.r[n] = 0

C12_Witness ==
    /\ BuiltBy({"x86_64 UspaceContext::new"})
    /\ BuiltFrame.rip = 2
    /\ BuiltFrame.rsp = 49
    /\ BuiltFrame.r["rdi"] = 7

(* the status register selects the unprivileged level with interrupts
   unmasked and debug and asynchronous-abort exceptions masked *)
CanonicalUserSpsr(v) ==
    /\ SPSR_M(v) = SPSR_M_EL0t
    /\ SPSR_I(v) = 0
    /\ SPSR_D(v) = 1
    /\ SPSR_A(v) = 1

(* C13, as stated: every frame built by a new-user-session constructor has
   its status register at the canonical value: unprivileged, interrupts
   unmasked, debug and asynchronous-abort exceptions masked; for
   UserContext::new as well as for UspaceContext::new. *)
C13_AsStated ==
    BuiltBy(NewOnAArch64) => CanonicalUserSpsr(BuiltFrame.spsr)

(* C13, amended: every frame built by a new-user-session constructor selects
   the unprivileged level with interrupts unmasked.  The aarch64 one-shot
   UspaceContext::new also masks debug, asynchronous-abort and FIQ
   exceptions; UserContext::new sets the status register to 0, which leaves
   all four unmasked; x86_64 sets the user selectors and only IF in rflags. *)
C13_NewFrameStatus ==
    /\ BuiltBy(NewOnAArch64) =>
          /\ SPSR_M(BuiltFrame.spsr) = SPSR_M_EL0t
          /\ SPSR_I(BuiltFrame.spsr) = 0
    /\ BuiltBy({"aarch64 UspaceContext::new"}) =>
          /\ CanonicalUserSpsr(BuiltFrame.spsr)
          /\ BuiltFrame.spsr = SPSR_value(SPSR_M_EL0t, 1, 1, 0, 1)
    /\ BuiltBy({"UserContext::new"}) =>
          /\ BuiltFrame.spsr = 0
          /\ SPSR_D(BuiltFrame.spsr) = 0
          /\ SPSR_A(BuiltFrame.spsr) = 0
          /\ SPSR_F(BuiltFrame.spsr) = 0
    /\ BuiltBy({"x86_64 UspaceContext::new"}) =>
          /\ is_user(BuiltFrame)
          /\ BuiltFrame.cs = UCODE64_SELECTOR
          /\ BuiltFrame.ss = UDATA_SELECTOR
          /\ BuiltFrame.rflags = RFlags_INTERRUPT_FLAG
          /\ RFlags_IOPL(BuiltFrame.rflags) = 0

C13_Witness ==
    /\ BuiltBy({"UserContext::new"})
    /\ BuiltFrame.spsr = 0
    /\ BuiltFrame.elr = 1

(* C14: the copy constructor produces, for every input frame, one captured in
   kernel mode included, a frame whose privilege-describing fields hold their
   user-mode values (x86_64: cs and ss are the user selectors; aarch64: the
   saved status register selects the unprivileged level) while every other
   register equals the input frame's. *)
C14_FromForcesUserMode ==
    /\ BuiltBy({"x86_64 UspaceContext::from"}) =>
          /\ BuiltFrame.cs = UCODE64_SELECTOR
          /\ BuiltFrame.ss = UDATA_SELECTOR
          /\ BuiltFrame = [ctor_in.tf EXCEPT !.cs = BuiltFrame.cs, !.ss = BuiltFrame.ss]
    /\ BuiltBy(FromOnAArch64) =>
          /\ SPSR_M(BuiltFrame.spsr) = SPSR_M_EL0t
          /\ [BuiltFrame EXCEPT !.spsr = 0] = [ctor_in.tf EXCEPT !.spsr = 0]

C14_KernelFrameKeepsPrivilege ==
    /\ BuiltBy({"aarch64 UspaceContext::from"})
    /\ SPSR_M(ctor_in.tf.spsr) = 5
    /\ SPSR_M(BuiltFrame.spsr) = 5

----------------------------------------------------------------------------
(* ExceptionInfo and its portable classification *)

ExceptionInfo(esr, stval) == [esr |-> esr, stval |-> stval]

(* faulty variant: a PC alignment fault is not recognised *)
kind_without_pc_alignment(info) ==
    CASE info.esr.EC = EC_BreakpointLowerEL -> "Breakpoint"
      [] info.esr.EC = EC_IllegalExecutionState -> "IllegalInstruction"
      [] info.esr.EC = EC_SPAlignmentFault -> "Misaligned"
      [] OTHER -> "Other"

kind(info) ==
    CASE info.esr.EC = EC_BreakpointLowerEL -> "Breakpoint"
      [] info.esr.EC = EC_IllegalExecutionState -> "IllegalInstruction"
      [] info.esr.EC \in {EC_PCAlignmentFault, EC_SPAlignmentFault} -> "Misaligned"
      [] OTHER -> "Other"

(* every value of the 6-bit class field, two payloads, two addresses *)
ExceptionInfos ==
    {ExceptionInfo([EC |-> ec, ISS |-> iss], stval) :
        ec \in 0..(2 ^ 6 - 1), iss \in {0, 2 ^ 24 + 1}, stval \in FarSamples}

Call_kind ==
    /\ pc = "info"
    /\ pc' = "kind"
    /\ exc' = [exc EXCEPT !.kind = kind(exc.info)]
    /\ UNCHANGED <<machine, ctor_in, built, x86, a64, cores>>

InitKind ==
    /\ MachineOff
    /\ pc = "info"
    /\ exc \in [info : ExceptionInfos, kind : {"not computed"}]
    /\ ctor_in = [off |-> TRUE]
    /\ built = [off |-> TRUE]
    /\ cores = [off |-> TRUE]
    /\ x86 = [off |-> TRUE]
    /\ a64 = [off |-> TRUE]

NextKind == Call_kind

SpecKind == InitKind /\ [][NextKind]_vars

(* C17: ExceptionInfo::kind() is a function of the exception class alone:
   breakpoint from a lower level gives Breakpoint, illegal execution state
   gives IllegalInstruction, PC and SP alignment faults give Misaligned, every
   other class gives Other; the info holds the syndrome and the address only,
   the kind is computed from them on demand. *)
C17_KindByClass ==
    /\ DOMAIN exc.info = {"esr", "stval"}
    /\ pc = "kind" =>
          exc.kind = IF exc.info.esr.EC = 48 THEN "Breakpoint"
                     ELSE IF exc.info.esr.EC = 14 THEN "IllegalInstruction"
                     ELSE IF exc.info.esr.EC \in {34, 38} THEN "Misaligned"
                     ELSE "Other"

C17_Witness ==
    /\ pc = "kind"
    /\ exc.info.esr.EC = 34
    /\ exc.info.esr.ISS # 0
    /\ exc.kind = "Misaligned"

----------------------------------------------------------------------------
(* x86_64: the thread pointer (FS base) across the privilege switch.
   A core is [r, rip, cs, rflags, rsp, ss, tp, KERNEL_FS_BASE, rsp0,
   gs_swapped]; tls says whether the crate is built with feature "tls". *)

read_thread_pointer(core) == core.tp

write_thread_pointer(core, v) == [core EXCEPT !.tp = v]

(* faulty variant: the user value is not written to the thread pointer *)
switch_to_user_fs_base_stash_only(tls, core, f) ==
    IF is_user(f)
    THEN IF tls THEN [core EXCEPT !.KERNEL_FS_BASE = read_thread_pointer(core)] ELSE core
    ELSE core

switch_to_user_fs_base(tls, core, f) ==
    IF is_user(f)
    THEN LET stashed == IF tls
                        THEN [core EXCEPT !.KERNEL_FS_BASE = read_thread_pointer(core)]
                        ELSE core
         IN  write_thread_pointer(stashed, f.fs_base)
    ELSE core

(* yields the core and the frame *)
switch_to_kernel_fs_base(tls, core, f) ==
    IF is_user(f)
    THEN [core |-> IF tls THEN write_thread_pointer(core, core.KERNEL_FS_BASE) ELSE core,
          tf |-> [f EXCEPT !.fs_base = read_thread_pointer(core)]]
    ELSE [core |-> core, tf |-> f]

KernelThreadPointers == {80, 81}

UserThreadPointers == {70, 71}

X86Core(tp, stale, rflags, rsp0) ==
    [r |-> [n \in X86Regs |-> 1], rip |-> 90, cs |-> KCODE64_SELECTOR, rflags |-> rflags,
     rsp |-> 95, ss |-> KDATA_SELECTOR, tp |-> tp, KERNEL_FS_BASE |-> stale,
     rsp0 |-> rsp0, gs_swapped |-> FALSE]

(* x86 = [tls, phase, core, tf, kstack_top, steps, before, at_trap]: before is
   the core and frame when the entry half began, at_trap the thread pointer
   when the return half began *)
Call_switch_to_user_fs_base ==
    /\ pc = "fs_base"
    /\ x86.phase = "kernel"
    /\ x86' = [x86 EXCEPT !.phase = "entered",
                          !.core = switch_to_user_fs_base(x86.tls, x86.core, x86.tf),
                          !.before = [core |-> x86.core, tf |-> x86.tf]]
    /\ UNCHANGED <<machine, pc, ctor_in, built, a64, exc, cores>>

(* user code loads another thread pointer *)
UserWritesThreadPointer ==
    /\ pc = "fs_base"
    /\ x86.phase = "entered"
    /\ is_user(x86.tf)
    /\ \E v \in UserThreadPointers \cup {72} :
          x86' = [x86 EXCEPT !.phase = "user ran", !.core = write_thread_pointer(x86.core, v)]
    /\ UNCHANGED <<machine, pc, ctor_in, built, a64, exc, cores>>

Call_switch_to_kernel_fs_base ==
    /\ pc = "fs_base"
    /\ x86.phase \in {"entered", "user ran"}
    /\ LET o == switch_to_kernel_fs_base(x86.tls, x86.core, x86.tf)
       IN  x86' = [x86 EXCEPT !.phase = "returned", !.core = o.core, !.tf = o.tf,
                              !.at_trap = read_thread_pointer(x86.core)]
    /\ UNCHANGED <<machine, pc, ctor_in, built, a64, exc, cores>>

X86Frames ==
    {[X86TrapFrame_default EXCEPT !.cs = sel[1], !.ss = sel[2], !.fs_base = fsb,
                                  !.rflags = RFlags_INTERRUPT_FLAG]
       : sel \in {<<KCODE64_SELECTOR, KDATA_SELECTOR>>, <<UCODE64_SELECTOR, UDATA_SELECTOR>>},
         fsb \in UserThreadPointers}

InitFsBase ==
    /\ MachineOff
    /\ pc = "fs_base"
    /\ \E tls \in BOOLEAN, tp \in KernelThreadPointers, stale \in {0, 99}, f \in X86Frames :
          LET core == X86Core(tp, stale, 2, 96)
          IN  x86 = [tls |-> tls, phase |-> "kernel", core |-> core, tf |-> f,
                     kstack_top |-> 96, steps |-> <<>>,
                     before |-> [core |-> core, tf |-> f], at_trap |-> tp]
    /\ ctor_in = [off |-> TRUE]
    /\ built = [off |-> TRUE]
    /\ cores = [off |-> TRUE]
    /\ a64 = [off |-> TRUE]
    /\ exc = [off |-> TRUE]

NextFsBase ==
    \/ Call_switch_to_user_fs_base
    \/ UserWritesThreadPointer
    \/ Call_switch_to_kernel_fs_base

SpecFsBase == InitFsBase /\ [][NextFsBase]_vars

AfterEntryHalf == pc = "fs_base" /\ x86.phase = "entered"

AfterReturnHalf == pc = "fs_base" /\ x86.phase = "returned"

UserFrame == is_user(x86.before.tf)

NotUserFrameUntouched ==
    (~UserFrame /\ (AfterEntryHalf \/ AfterReturnHalf)) =>
        /\ x86.core = x86.before.core
        /\ x86.tf = x86.before.tf

(* C16, as stated: for a user-mode frame, after the entry half the thread
   pointer holds the frame's saved user value and the kernel's value is
   stashed in per-core storage; after the return half the thread pointer
   again holds the kernel value it held before entry and the frame's fs_base
   holds the user value read at the trap; for a frame that is not user-mode
   neither half changes the thread pointer or the frame. *)
C16_AsStated ==
    /\ (UserFrame /\ AfterEntryHalf) =>
          /\ x86.core.tp = x86.before.tf.fs_base
          /\ x86.core.KERNEL_FS_BASE = x86.before.core.tp
    /\ (UserFrame /\ AfterReturnHalf) =>
          /\ x86.core.tp = x86.before.core.tp
          /\ x86.tf.fs_base = x86.at_trap
    /\ NotUserFrameUntouched

(* C16, amended: the pair is symmetric only in a build with feature "tls".
   For a user-mode frame the entry half always loads the frame's saved user
   value into the thread pointer and the return half always saves the value
   read at the trap into the frame's fs_base; the kernel's value is stashed
   in per-core storage by the entry half and restored by the return half
   only with "tls"; without it nothing is stashed and the thread pointer
   keeps the user value after the return half.  For a frame that is not
   user-mode neither half changes the thread pointer or the frame. *)
C16_SymmetricWithTls ==
    /\ (UserFrame /\ AfterEntryHalf) =>
          /\ x86.core.tp = x86.before.tf.fs_base
          /\ x86.core.KERNEL_FS_BASE =
                IF x86.tls THEN x86.before.core.tp ELSE x86.before.core.KERNEL_FS_BASE
    /\ (UserFrame /\ AfterReturnHalf) =>
          /\ x86.tf.fs_base = x86.at_trap
          /\ x86.tf = [x86.before.tf EXCEPT !.fs_base = x86.at_trap]
          /\ x86.core.tp = IF x86.tls THEN x86.before.core.tp ELSE x86.at_trap
    /\ NotUserFrameUntouched

C16_Witness ==
    /\ AfterReturnHalf
    /\ UserFrame
    /\ x86.tls
    /\ x86.before.tf.fs_base = 70
    /\ x86.at_trap = 72
    /\ x86.tf.fs_base = 72
    /\ x86.core.tp = 81

----------------------------------------------------------------------------
(* One-shot entry into user mode *)

KernelStackTops == {96, 97}

x86_64_disable_irqs(core) ==
    [core EXCEPT !.rflags = IF Bit(@, 9) = 1 THEN @ - RFlags_INTERRUPT_FLAG ELSE @]

read_tss_rsp0(core) == core.rsp0

(* the registers popped from the frame, then swapgs and iretq *)
x86_64_restore_and_iretq(core, f) ==
    [core EXCEPT !.r = f.r, !.gs_swapped = ~@, !.rip = f.rip, !.cs = f.cs,
                 !.rflags = f.rflags, !.rsp = f.rsp, !.ss = f.ss]

(* faulty variant: the TSS stack pointer is not compared with kstack_top *)
x86_64_enter_uspace_unchecked(tls, core, f, kstack_top) ==
    LET masked == x86_64_disable_irqs(core)
    IN  [core |-> x86_64_restore_and_iretq(switch_to_user_fs_base(tls, masked, f), f),
         fatal |-> FALSE,
         steps |-> <<"disable_irqs", "switch_to_user_fs_base", "swapgs", "iretq">>]

(* yields the core the function leaves, whether it panicked, and its steps *)
x86_64_enter_uspace(tls, core, f, kstack_top) ==
    LET masked == x86_64_disable_irqs(core)
    IN  IF read_tss_rsp0(masked) # kstack_top
        THEN [core |-> masked, fatal |-> TRUE,
              steps |-> <<"disable_irqs", "assert_eq", "panic">>]
        ELSE [core |-> x86_64_restore_and_iretq(switch_to_user_fs_base(tls, masked, f), f),
              fatal |-> FALSE,
              steps |-> <<"disable_irqs", "assert_eq", "switch_to_user_fs_base",
                          "swapgs", "iretq">>]

(* an aarch64 core is [r, sp, sp_el0, tpidr_el0, tpidrro_el0, elr_el1,
   spsr_el1, pc, el, irq_masked] *)
A64Core(irq_masked) ==
    [r |-> [i \in 0..(NumRegs - 1) |-> 1], sp |-> 95, sp_el0 |-> 0, tpidr_el0 |-> 80,
     tpidrro_el0 |-> 0, elr_el1 |-> 0, spsr_el1 |-> 0, pc |-> 90, el |-> 1,
     irq_masked |-> irq_masked]

(* eret: the program counter and the processor state come from ELR_EL1 and SPSR_EL1 *)
eret(core) ==
    [core EXCEPT !.pc = core.elr_el1,
                 !.el = SPSR_M(core.spsr_el1) \div 4,
                 !.irq_masked = SPSR_I(core.spsr_el1) = 1]

aarch64_enter_uspace(core, f, kstack_top) ==
    LET masked == [core EXCEPT !.irq_masked = TRUE]
        loaded == [masked EXCEPT !.sp = kstack_top,
                                 !.tpidrro_el0 = masked.tpidr_el0,
                                 !.sp_el0 = f.usp,
                                 !.tpidr_el0 = f.tpidr,
                                 !.elr_el1 = f.elr,
                                 !.spsr_el1 = f.spsr,
                                 !.r = f.r]
    IN  [core |-> eret(loaded), fatal |-> FALSE,
         steps |-> <<"disable_irqs", "mov sp", "eret">>]

Call_x86_64_enter_uspace ==
    /\ pc = "x86_64 enter_uspace"
    /\ x86.phase = "kernel"
    /\ LET o == x86_64_enter_uspace(x86.tls, x86.core, x86.tf, x86.kstack_top)
       IN  x86' = [x86 EXCEPT !.phase = IF o.fatal THEN "fatal" ELSE "user",
                              !.core = o.core,
                              !.steps = o.steps,
                              !.before = [core |-> x86.core, tf |-> x86.tf]]
    /\ UNCHANGED <<machine, pc, ctor_in, built, a64, exc, cores>>

Call_aarch64_enter_uspace ==
    /\ pc = "aarch64 enter_uspace"
    /\ a64.phase = "kernel"
    /\ LET o == aarch64_enter_uspace(a64.core, a64.tf, a64.kstack_top)
       IN  a64' = [a64 EXCEPT !.phase = IF o.fatal THEN "fatal" ELSE "user",
                              !.core = o.core,
                              !.steps = o.steps,
                              !.before = a64.core]
    /\ UNCHANGED <<machine, pc, ctor_in, built, x86, exc, cores>>

InitEnterX86 ==
    /\ pc = "x86_64 enter_uspace"
    /\ \E tls \in BOOLEAN, rsp0 \in KernelStackTops, top \in KernelStackTops,
          fl \in {2, 2 + RFlags_INTERRUPT_FLAG}, a \in NewArgs :
          LET core == X86Core(80, 0, fl, rsp0)
              f == x86_64_UspaceContext_new(a.entry, a.ustack_top, a.arg0)
          IN  x86 = [tls |-> tls, phase |-> "kernel", core |-> core, tf |-> f,
                     kstack_top |-> top, steps |-> <<>>,
                     before |-> [core |-> core, tf |-> f], at_trap |-> 80]
    /\ a64 = [off |-> TRUE]

InitEnterA64 ==
    /\ pc = "aarch64 enter_uspace"
    /\ \E masked \in BOOLEAN, top \in KernelStackTops, a \in NewArgs :
          a64 = [phase |-> "kernel", core |-> A64Core(masked),
                 tf |-> aarch64_UspaceContext_new(a.entry, a.ustack_top, a.arg0),
                 kstack_top |-> top, steps |-> <<>>, before |-> A64Core(masked)]
    /\ x86 = [off |-> TRUE]

InitEnter ==
    /\ MachineOff
    /\ InitEnterX86 \/ InitEnterA64
    /\ ctor_in = [off |-> TRUE]
    /\ built = [off |-> TRUE]
    /\ cores = [off |-> TRUE]
    /\ exc = [off |-> TRUE]

NextEnter ==
    \/ Call_x86_64_enter_uspace
    \/ Call_aarch64_enter_uspace

SpecEnter == InitEnter /\ [][NextEnter]_vars

EnteredX86 == pc = "x86_64 enter_uspace" /\ x86.phase # "kernel"

EnteredA64 == pc = "aarch64 enter_uspace" /\ a64.phase # "kernel"

(* C18: enter_uspace never returns to its caller, masks interrupts before the
   privilege switch, and switches only when the kernel stack pointer recorded
   for trap re-entry equals kstack_top: on x86_64 a mismatch with the TSS
   rsp0 is a fatal assertion failure before any register, thread pointer or
   frame is changed (interrupts are already masked), on aarch64 the kernel
   stack pointer is set to kstack_top before the switch. *)
C18_EnterUspaceChecksKernelStack ==
    /\ EnteredX86 =>
          /\ x86.phase \in {"user", "fatal"}
          /\ x86.steps[1] = "disable_irqs"
          /\ x86.phase = "fatal" <=> x86.before.core.rsp0 # x86.kstack_top
          /\ x86.phase = "fatal" =>
                /\ Bit(x86.core.rflags, 9) = 0
                /\ [x86.core EXCEPT !.rflags = 0] = [x86.before.core EXCEPT !.rflags = 0]
                /\ x86.tf = x86.before.tf
                /\ x86.steps = <<"disable_irqs", "assert_eq", "panic">>
          /\ x86.phase = "user" =>
                /\ x86.core.rsp0 = x86.kstack_top
                /\ x86.steps = <<"disable_irqs", "assert_eq", "switch_to_user_fs_base",
                                 "swapgs", "iretq">>
                /\ x86.core.rip = x86.tf.rip
                /\ x86.core.cs = x86.tf.cs
                /\ x86.core.tp = x86.tf.fs_base
    /\ EnteredA64 =>
          /\ a64.phase = "user"
          /\ a64.steps = <<"disable_irqs", "mov sp", "eret">>
          /\ a64.core.sp = a64.kstack_top
          /\ a64.core.pc = a64.tf.elr
          /\ a64.core.el = 0

C18_Witness ==
    /\ EnteredX86
    /\ x86.phase = "fatal"
    /\ x86.before.core.rsp0 = 97
    /\ x86.kstack_top = 96
    /\ Bit(x86.before.core.rflags, 9) = 1
    /\ Bit(x86.core.rflags, 9) = 0

----------------------------------------------------------------------------
(* Synchronous classes without an arm, in kernel mode (Spec) *)

KernelUnhandledSync ==
    /\ pc \in {"kret", "fatal"}
    /\ trap.source = "CurrentSpElx"
    /\ trap.kind = "Synchronous"
    /\ trap.esr.EC \notin {EC_InstrAbortCurrentEL, EC_DataAbortCurrentEL, EC_Brk64}

(* C21: a kernel-mode synchronous trap whose class is none of instruction
   abort at the current level, data abort at the current level or breakpoint
   instruction always ends in a fatal abort: it never resumes, the frame is
   not modified, and neither the page-fault handler nor the fixup table is
   used. *)
C21_UnhandledClassFatal ==
    KernelUnhandledSync =>
        /\ pc = "fatal"
        /\ tf = tf_entry
        /\ Calls("PAGE_FAULT") = {}
        /\ ~FixupRan
        /\ trace = <<Panic>>

C21_Witness ==
    /\ KernelUnhandledSync
    /\ trap.esr.EC = EC_SVC64
    /\ pc = "fatal"
    /\ Len(ex_table) = 1
    /\ ip(tf) = ex_table[1].from

----------------------------------------------------------------------------
(* Interrupts (Spec) *)

(* an Irq-kind trap that was delivered to handle_irq_exception or to run() *)
IrqTrap ==
    /\ Dispatched
    /\ trap.kind = "Irq"
    /\ trap.source \in {"CurrentSpElx", "LowerAArch64"}

(* C22: for every Irq-kind trap the interrupt handler callback is invoked
   exactly once and the trap counts as handled: in kernel mode the trap
   resumes with the frame unchanged, from a user-mode session run() returns
   ReturnReason::Interrupt after the callback has run; an Irq trap never
   reaches the page-fault handler, the fixup table or a fatal abort. *)
C22_IrqCallbackOnce ==
    IrqTrap =>
        /\ Cardinality(Calls("IRQ")) = 1
        /\ trace = <<IrqCall>>
        /\ Calls("PAGE_FAULT") = {}
        /\ ~FixupRan
        /\ Calls("panic") = {}
        /\ trap.source = "CurrentSpElx" =>
              /\ pc = "kret"
              /\ tf = tf_entry
        /\ trap.source = "LowerAArch64" =>
              /\ pc = "uret"
              /\ ret = Interrupt
              /\ \A r \in Positions("enable_irqs") : \A c \in Positions("IRQ") : c < r

C22_Witness ==
    /\ IrqTrap
    /\ trap.source = "CurrentSpElx"
    /\ pc = "kret"
    /\ trace = <<IrqCall>>
    /\ tf.elr = 2

----------------------------------------------------------------------------
(* Managed round trip: the kernel context across enter_user and
   _user_trap_entry.  A core is [sp, x, el] with x the registers x19..x30;
   the kernel stack is a function from slot addresses to values. *)

NonVolatile == 19..30

StackSlots == {a \in 0..256 : a % 8 = 0}

(* slot of register i in the block enter_user pushes: x19 at [sp], x30 at [sp, 11 * 8] *)
SlotOf(sp, i) == sp + (i - 19) * 8

(* faulty variant: the stack pointer is recorded before the registers are pushed *)
enter_user_records_sp_before_push(core, stack, ctx, ctx_addr) ==
    LET pushed == core.sp - 12 * 8
    IN  [core |-> [core EXCEPT !.sp = ctx_addr],
         stack |-> [a \in StackSlots |->
                      IF \E i \in NonVolatile : a = SlotOf(pushed, i)
                      THEN core.x[CHOOSE i \in NonVolatile : a = SlotOf(pushed, i)]
                      ELSE stack[a]],
         ctx |-> [ctx EXCEPT !.sp_el1 = core.sp]]

(* enter_user up to the branch to _user_entry: pushes x19..x30, stores the
   stack pointer in ctx.sp_el1, points sp at the context *)
enter_user(core, stack, ctx, ctx_addr) ==
    LET pushed == core.sp - 12 * 8
    IN  [core |-> [core EXCEPT !.sp = ctx_addr],
         stack |-> [a \in StackSlots |->
                      IF \E i \in NonVolatile : a = SlotOf(pushed, i)
                      THEN core.x[CHOOSE i \in NonVolatile : a = SlotOf(pushed, i)]
                      ELSE stack[a]],
         ctx |-> [ctx EXCEPT !.sp_el1 = pushed]]

(* _user_entry: the user registers are loaded from the context's frame and
   the core drops to EL0 *)
user_entry(core, ctx) ==
    [core EXCEPT !.x = [i \in NonVolatile |-> ctx.tf.r[i]], !.el = 0]

(* the trap vector of a user-mode session: the user registers are saved in
   the context's frame, which sp points at *)
user_trap_save(core, ctx) ==
    [core |-> [core EXCEPT !.el = 1],
     ctx |-> [ctx EXCEPT !.tf.r = [i \in 0..(NumRegs - 1) |->
                                      IF i \in NonVolatile THEN core.x[i] ELSE @[i]]]]

(* _user_trap_entry: reloads sp from ctx.sp_el1, pops x19..x30, returns *)
user_trap_entry(core, stack, ctx, ctx_addr) ==
    LET x8 == IF core.sp = ctx_addr THEN ctx.sp_el1 ELSE 0
    IN  [core EXCEPT !.x = [i \in NonVolatile |-> stack[SlotOf(x8, i)]],
                     !.sp = x8 + 12 * 8]

KernelRegs == {[i \in NonVolatile |-> i + k] : k \in {100, 200}}

UserRegs == {[i \in NonVolatile |-> k] : k \in {0, 9}}

KernelSps == {160, 256}

(* a64 = [phase, core, stack, ctx, ctx_addr, at_call, reloaded, runs] *)
Call_run_enter_user ==
    /\ pc = "round trip"
    /\ a64.phase = "kernel"
    /\ LET e == enter_user(a64.core, a64.stack, a64.ctx, a64.ctx_addr)
       IN  a64' = [a64 EXCEPT !.phase = "user",
                              !.core = user_entry(e.core, e.ctx),
                              !.stack = e.stack,
                              !.ctx = e.ctx,
                              !.at_call = [sp |-> a64.core.sp, x |-> a64.core.x]]
    /\ UNCHANGED <<machine, pc, ctor_in, built, x86, exc, cores>>

(* user code computes in x19..x30 *)
UserRuns ==
    /\ pc = "round trip"
    /\ a64.phase = "user"
    /\ \E regs \in UserRegs :
          /\ regs # a64.core.x
          /\ a64' = [a64 EXCEPT !.core.x = regs]
    /\ UNCHANGED <<machine, pc, ctor_in, built, x86, exc, cores>>

TrapFromUser ==
    /\ pc = "round trip"
    /\ a64.phase = "user"
    /\ LET sv == user_trap_save(a64.core, a64.ctx)
       IN  a64' = [a64 EXCEPT !.phase = "returned",
                              !.core = user_trap_entry(sv.core, a64.stack, sv.ctx, a64.ctx_addr),
                              !.ctx = sv.ctx,
                              !.reloaded = sv.ctx.sp_el1,
                              !.runs = @ + 1]
    /\ UNCHANGED <<machine, pc, ctor_in, built, x86, exc, cores>>

(* the caller of run() goes on, possibly deeper or shallower on its stack and
   with other values in its registers, and may call run() again *)
CallerGoesOn ==
    /\ pc = "round trip"
    /\ a64.phase = "returned"
    /\ a64.runs < MaxRuns
    /\ \E sp \in KernelSps, regs \in KernelRegs :
          a64' = [a64 EXCEPT !.phase = "kernel", !.core.sp = sp, !.core.x = regs]
    /\ UNCHANGED <<machine, pc, ctor_in, built, x86, exc, cores>>

InitRoundTrip ==
    /\ MachineOff
    /\ pc = "round trip"
    /\ \E sp \in KernelSps, regs \in KernelRegs :
          a64 = [phase |-> "kernel",
                 core |-> [sp |-> sp, x |-> regs, el |-> 1],
                 stack |-> [a \in StackSlots |-> 0],
                 ctx |-> UserContext_new(0, 48, 7),
                 ctx_addr |-> 1024,
                 at_call |-> [sp |-> sp, x |-> regs],
                 reloaded |-> 0,
                 runs |-> 0]
    /\ ctor_in = [off |-> TRUE]
    /\ built = [off |-> TRUE]
    /\ cores = [off |-> TRUE]
    /\ x86 = [off |-> TRUE]
    /\ exc = [off |-> TRUE]

NextRoundTrip ==
    \/ Call_run_enter_user
    \/ UserRuns
    \/ TrapFromUser
    \/ CallerGoesOn

SpecRoundTrip == InitRoundTrip /\ [][NextRoundTrip]_vars

InUserSession == pc = "round trip" /\ a64.phase = "user"

RunReturned == pc = "round trip" /\ a64.phase = "returned"

(* C23: enter_user stores the kernel stack pointer, after pushing x19..x30,
   in the context's sp_el1 before the switch to user mode, and
   _user_trap_entry reloads exactly that value; so when run() returns after a
   user-mode trap the kernel stack pointer and x19..x30 equal their values
   at the call of run(), for any number of run() calls on the same context. *)
C23_KernelContextRestored ==
    /\ InUserSession =>
          /\ a64.ctx.sp_el1 = a64.at_call.sp - 12 * 8
          /\ \A i \in NonVolatile : a64.stack[SlotOf(a64.ctx.sp_el1, i)] = a64.at_call.x[i]
          /\ a64.core.sp = a64.ctx_addr
    /\ RunReturned =>
          /\ a64.reloaded = a64.ctx.sp_el1
          /\ a64.reloaded = a64.at_call.sp - 12 * 8
          /\ a64.core.sp = a64.at_call.sp
          /\ a64.core.x = a64.at_call.x

C23_Witness ==
    /\ RunReturned
    /\ a64.runs = 2
    /\ a64.at_call.sp = 160
    /\ a64.core.sp = 160
    /\ a64.core.x[19] = 219
    /\ a64.ctx.tf.r[19] = 9
    /\ a64.stack[256 - 8] = 130

----------------------------------------------------------------------------
(* fixup_exception on several cores, after initialization.  Each core runs
   the binary search probe by probe on the shared table and then rewrites
   its own frame. *)

Cores == {"cpu0", "cpu1"}

(* faulty variant: the recovery address is also left in the first register *)
fixup_found_clobbers_x0(f, entries, entry) ==
    [tf |-> [set_ip(f, entries[entry].to) EXCEPT !.r[0] = entries[entry].to],
     entries |-> entries]

(* faulty variant: the matched entry is retargeted once it has been used *)
fixup_found_retargets_entry(f, entries, entry) ==
    [tf |-> set_ip(f, entries[entry].to),
     entries |-> [entries EXCEPT ![entry].to = entries[entry].from]]

(* the Ok arm of fixup_exception: the frame and the table it leaves *)
fixup_found(f, entries, entry) ==
    [tf |-> set_ip(f, entries[entry].to), entries |-> entries]

IdleCore(f) ==
    [phase |-> "idle", lo |-> 0, hi |-> 0, entry |-> 0, tf |-> f, tf0 |-> f, ok |-> FALSE,
     calls |-> 1]

CoreStart(c) ==
    /\ cores[c].phase = "idle"
    /\ cores' = [cores EXCEPT ![c].phase = "search", ![c].lo = 1, ![c].hi = Len(ex_table)]
    /\ UNCHANGED ex_table

(* one comparison of the binary search *)
CoreProbe(c) ==
    /\ cores[c].phase = "search"
    /\ IF cores[c].lo > cores[c].hi
       THEN cores' = [cores EXCEPT ![c].phase = "done", ![c].ok = FALSE]
       ELSE \E mid \in cores[c].lo..cores[c].hi :
               cores' = IF ex_table[mid].from = ip(cores[c].tf)
                        THEN [cores EXCEPT ![c].phase = "found", ![c].entry = mid]
                        ELSE IF ex_table[mid].from < ip(cores[c].tf)
                        THEN [cores EXCEPT ![c].lo = mid + 1]
                        ELSE [cores EXCEPT ![c].hi = mid - 1]
    /\ UNCHANGED ex_table

CoreSetIp(c) ==
    /\ cores[c].phase = "found"
    /\ LET o == fixup_found(cores[c].tf, ex_table, cores[c].entry)
       IN  /\ cores' = [cores EXCEPT ![c].phase = "done", ![c].ok = TRUE, ![c].tf = o.tf]
           /\ ex_table' = o.entries

(* the core resumes at the recovery address, faults there and calls
   fixup_exception again on the rewritten frame *)
CoreAgain(c) ==
    /\ cores[c].phase = "done"
    /\ cores[c].ok
    /\ cores[c].calls < MaxCalls
    /\ cores' = [cores EXCEPT ![c] = [IdleCore(cores[c].tf) EXCEPT !.calls = cores[c].calls + 1]]
    /\ UNCHANGED ex_table

CoreStep ==
    /\ pc = "cores"
    /\ \E c \in Cores : CoreStart(c) \/ CoreProbe(c) \/ CoreSetIp(c) \/ CoreAgain(c)
    /\ UNCHANGED <<linked, initialized, pc, trap, tf, tf_entry, uctx, irqs_enabled, trace,
                   ret, iss_in, cls, steps, inits, ctor_in, built, x86, a64, exc>>

InitCores ==
    /\ linked \in Tables(MaxTrapEntries + 1)
    /\ ex_table = sort_unstable(linked)
    /\ initialized = TRUE
    /\ inits = 1
    /\ pc = "cores"
    /\ trap = NoTrap
    /\ tf = TrapFrame_new
    /\ tf_entry = TrapFrame_new
    /\ uctx = UserContext_new(0, 48, 7)
    /\ irqs_enabled = TRUE
    /\ trace = <<>>
    /\ ret = NoReason
    /\ iss_in = 0
    /\ cls = NoCls
    /\ steps = <<>>
    /\ cores \in [Cores -> {IdleCore(KernelFrame(a)) : a \in Addrs}]
    /\ ctor_in = [off |-> TRUE]
    /\ built = [off |-> TRUE]
    /\ x86 = [off |-> TRUE]
    /\ a64 = [off |-> TRUE]
    /\ exc = [off |-> TRUE]

NextCores == CoreStep

SpecCores == InitCores /\ [][NextCores]_vars

(* C24: the exception table is written only by init_exception_table;
   fixup_exception modifies no entry, so after initialization
   fixup_exception calls interleaved on several cores, each on its own frame,
   return the result and leave the frame that the same call gives when
   executed alone. *)
C24_FixupReadsOnly ==
    /\ ex_table = sort_unstable(linked)
    /\ \A c \in Cores :
          cores[c].phase = "done" =>
             [ok |-> cores[c].ok, tf |-> cores[c].tf]
                \in fixup_exception(cores[c].tf0, sort_unstable(linked))

C24_Witness ==
    /\ pc = "cores"
    /\ Len(ex_table) = 2
    /\ cores["cpu0"].phase = "done"
    /\ cores["cpu0"].ok
    /\ cores["cpu1"].phase = "found"
    /\ cores["cpu1"].entry = 2
    /\ ip(cores["cpu0"].tf0) = ip(cores["cpu1"].tf0)
    /\ ip(cores["cpu0"].tf) = ex_table[2].to

----------------------------------------------------------------------------
(* What a matching fixup does to the frame (SpecCores) *)

IsFaultingAddress(a) == \E i \in 1..Len(ex_table) : ex_table[i].from = a

(* C25: when fixup_exception finds a match it changes only the frame's
   instruction pointer: the general-purpose registers, the stack pointer, the
   status register and the thread-pointer field keep their values; a second
   fixup_exception on the rewritten frame matches only if the recovery
   address is itself a faulting address of the table. *)
C25_FixupChangesOnlyIp ==
    \A c \in Cores :
       (cores[c].phase = "done" /\ cores[c].ok) =>
          /\ cores[c].tf.r = cores[c].tf0.r
          /\ cores[c].tf.usp = cores[c].tf0.usp
          /\ cores[c].tf.spsr = cores[c].tf0.spsr
          /\ cores[c].tf.tpidr = cores[c].tf0.tpidr
          /\ \E i \in 1..Len(ex_table) :
                /\ ex_table[i].from = ip(cores[c].tf0)
                /\ ex_table[i].to = ip(cores[c].tf)
          /\ cores[c].calls > 1 => IsFaultingAddress(ip(cores[c].tf0))

C25_Witness ==
    /\ pc = "cores"
    /\ cores["cpu0"].phase = "done"
    /\ cores["cpu0"].ok
    /\ cores["cpu0"].calls = 2
    /\ ip(cores["cpu0"].tf0) = 1
    /\ ip(cores["cpu0"].tf) = MaxAddr + 6
    /\ cores["cpu0"].tf.r[0] = 1

====
